---- MODULE Spec2Model ----
(***************************************************************************)
(* Model of Bot.py: the FAQ matcher search_faq (token overlap blended with *)
(* a difflib similarity ratio) and the submit flow that falls back to the  *)
(* generative model.                                                       *)
(*                                                                         *)
(* Text is a sequence of one-character strings.  Scores are the exact      *)
(* rationals the floats stand for, kept as [num, den] and compared by      *)
(* cross-multiplication: ratio() is the correctly rounded quotient 2M/T    *)
(* and 0.75 + min(0.25, k*0.05) is the correctly rounded double of         *)
(* (75 + 5k)/100 for every k, so float order and rational order agree.     *)
(* Thresholds and floors are written in hundredths.                        *)
(***************************************************************************)
EXTENDS Integers, Sequences, FiniteSets, TLC

VARIABLES faq_columns, faq_df, gemini_ready,
          user_question, force_ai, top_n, fuzzy_threshold,
          query_in_english, matches, candidates, scanned, trace,
          score_in, tok_in, priority_out

vars == <<faq_columns, faq_df, gemini_ready,
          user_question, force_ai, top_n, fuzzy_threshold,
          query_in_english, matches, candidates, scanned, trace,
          score_in, tok_in, priority_out>>

----------------------------------------------------------------------------
(* Characters *)

Whitespace == {" ", "\t", "\n"}

(* string.punctuation, less the backquote, which no input below contains *)
Punctuation ==
  {"!", "\"", "#", "$", "%", "&", "'", "(", ")", "*", "+", ",", "-", ".",
   "/", ":", ";", "<", "=", ">", "?", "@", "[", "\\", "]", "^", "_",
   "{", "|", "}", "~"}

UpperCase ==
  <<"A","B","C","D","E","F","G","H","I","J","K","L","M",
    "N","O","P","Q","R","S","T","U","V","W","X","Y","Z">>

LowerCase ==
  <<"a","b","c","d","e","f","g","h","i","j","k","l","m",
    "n","o","p","q","r","s","t","u","v","w","x","y","z">>

LowerChar(c) ==
  IF \E i \in DOMAIN UpperCase : UpperCase[i] = c
  THEN LowerCase[CHOOSE i \in DOMAIN UpperCase : UpperCase[i] = c]
  ELSE c

(* str.lower() *)
Lower(s) == [i \in 1..Len(s) |-> LowerChar(s[i])]

(* str.strip(): drop leading and trailing whitespace *)
Strip(s) ==
  LET keep == {i \in 1..Len(s) : s[i] \notin Whitespace}
  IN  IF keep = {} THEN <<>>
      ELSE LET lo == CHOOSE i \in keep : \A j \in keep : i <= j
               hi == CHOOSE i \in keep : \A j \in keep : j <= i
           IN  SubSeq(s, lo, hi)

(* re.sub(r"[<punctuation>]", " ", text) *)
ReplacePunctuation(s) ==
  [i \in 1..Len(s) |-> IF s[i] \in Punctuation THEN " " ELSE s[i]]

(* str.split(): the maximal runs of non-whitespace characters *)
Split(s) ==
  {SubSeq(s, i, j) : <<i, j>> \in
     {p \in (1..Len(s)) \X (1..Len(s)) :
        /\ p[1] <= p[2]
        /\ \A k \in p[1]..p[2] : s[k] \notin Whitespace
        /\ (p[1] = 1 \/ s[p[1] - 1] \in Whitespace)
        /\ (p[2] = Len(s) \/ s[p[2] + 1] \in Whitespace)}}

STOPWORDS ==
  {
    <<"t","h","e">>, <<"a","n","d">>, <<"f","o","r">>, <<"w","i","t","h">>,
    <<"f","r","o","m">>, <<"t","h","a","t">>, <<"t","h","i","s">>,
    <<"t","h","e","s","e">>, <<"t","h","o","s","e">>, <<"h","a","v","e">>,
    <<"h","a","s">>, <<"h","a","d">>, <<"b","e","e","n">>, <<"w","a","s">>,
    <<"w","e","r","e">>, <<"a","r","e">>, <<"i","s">>, <<"a">>, <<"a","n">>,
    <<"i","n">>, <<"o","n">>, <<"a","t">>, <<"b","y">>, <<"o","f">>,
    <<"t","o">>, <<"o","r">>, <<"a","s">>, <<"i","t">>, <<"b","e">>,
    <<"b","u","t">>, <<"n","o","t">>, <<"s","o">>, <<"i","f">>, <<"w","e">>,
    <<"y","o","u">>, <<"i">>, <<"t","h","e","y">>, <<"h","e">>,
    <<"s","h","e">>, <<"t","h","e","m">>, <<"h","i","s">>, <<"h","e","r">>
  }

MinTokenLen == 3

(* Mutant: the text is not lowercased before it is split. *)
clean_and_tokenize_nolower(text) ==
  {t \in Split(ReplacePunctuation(text)) :
     Len(t) >= MinTokenLen /\ t \notin STOPWORDS}

(* Mutant: stopwords are kept. *)
clean_and_tokenize_keepstop(text) ==
  {t \in Split(ReplacePunctuation(Lower(text))) : Len(t) >= MinTokenLen}

clean_and_tokenize(text) ==
  IF Len(text) = 0 THEN {}
  ELSE {t \in Split(ReplacePunctuation(Lower(text))) :
          Len(t) >= MinTokenLen /\ t \notin STOPWORDS}

----------------------------------------------------------------------------
(* difflib.SequenceMatcher(None, a, b).ratio(), no junk; the autojunk      *)
(* heuristic only applies to a second sequence of 200 or more elements.    *)

RECURSIVE RunLen(_, _, _, _, _, _)
(* length of the common run of a[i..ahi] and b[j..bhi] starting at i, j *)
RunLen(a, b, i, j, ahi, bhi) ==
  IF i > ahi \/ j > bhi \/ a[i] # b[j] THEN 0
  ELSE 1 + RunLen(a, b, i + 1, j + 1, ahi, bhi)

(* find_longest_match: the longest block; of those the one starting       *)
(* earliest in a, and of those the one starting earliest in b.            *)
FindLongestMatch(a, b, alo, ahi, blo, bhi) ==
  LET starts  == (alo..ahi) \X (blo..bhi)
      len(p)  == RunLen(a, b, p[1], p[2], ahi, bhi)
      lens    == {len(p) : p \in starts}
      longest == CHOOSE k \in lens : \A m \in lens : m <= k
      blocks  == {p \in starts : len(p) = longest}
      best    == CHOOSE p \in blocks :
                   \A q \in blocks :
                      p[1] < q[1] \/ (p[1] = q[1] /\ p[2] <= q[2])
  IN  IF starts = {} THEN <<alo, blo, 0>>
      ELSE <<best[1], best[2], longest>>

RECURSIVE MatchingSize(_, _, _, _, _, _)
(* get_matching_blocks: total size of the blocks found by recursing to    *)
(* the left and to the right of the longest match.                        *)
MatchingSize(a, b, alo, ahi, blo, bhi) ==
  IF alo > ahi \/ blo > bhi THEN 0
  ELSE LET m == FindLongestMatch(a, b, alo, ahi, blo, bhi)
           i == m[1]
           j == m[2]
           k == m[3]
       IN  IF k = 0 THEN 0
           ELSE k + MatchingSize(a, b, alo, i - 1, blo, j - 1)
                  + MatchingSize(a, b, i + k, ahi, j + k, bhi)

(* ratio() = 2.0 * matches / length, and 1.0 when both are empty *)
fuzzy_ratio(a, b) ==
  IF Len(a) + Len(b) = 0 THEN [num |-> 1, den |-> 1]
  ELSE [num |-> 2 * MatchingSize(a, b, 1, Len(a), 1, Len(b)),
        den |-> Len(a) + Len(b)]

(* order on scores *)
Less(x, y) == x.num * y.den < y.num * x.den
Leq(x, y)  == x.num * y.den <= y.num * x.den
Same(x, y) == x.num * y.den = y.num * x.den
Hundredths(n) == [num |-> n, den |-> 100]

----------------------------------------------------------------------------
(* The catalog: faq_df = pd.read_csv(...).  A cell is a string or NaN (an  *)
(* empty CSV cell); a row has a cell for each column of faq_columns.       *)

NaN == [nan |-> TRUE, text |-> <<>>]
Str(s) == [nan |-> FALSE, text |-> s]

(* row.get(col, "") *)
RowGet(row, col) == IF col \in DOMAIN row THEN row[col] ELSE Str(<<>>)

(* str(v or ""): NaN is truthy and prints as "nan" *)
StrOrEmpty(v) == IF v.nan THEN <<"n","a","n">> ELSE v.text

(* " ".join([disease, symptoms, notes]).strip() *)
CombinedText(row) ==
  Strip(StrOrEmpty(RowGet(row, "Disease")) \o <<" ">>
        \o StrOrEmpty(RowGet(row, "Common Symptoms")) \o <<" ">>
        \o StrOrEmpty(RowGet(row, "Notes")))

----------------------------------------------------------------------------
(* search_faq *)

BoostBase == 75
BoostCap == 25
BoostPerToken == 5

MinInt(x, y) == IF x <= y THEN x ELSE y
MaxScore(x, y) == IF Less(x, y) THEN y ELSE x

(* Mutant: the boost replaces the fuzzy score instead of flooring it. *)
Priority_nomax(score, tok_count) ==
  IF tok_count > 0
  THEN Hundredths(BoostBase + MinInt(BoostCap, tok_count * BoostPerToken))
  ELSE score

Priority(score, tok_count) ==
  IF tok_count > 0
  THEN MaxScore(score,
                Hundredths(BoostBase + MinInt(BoostCap, tok_count * BoostPerToken)))
  ELSE score

(* the loop body: the candidate of row i, or none when its text is empty *)
Candidate(user_input, user_tokens, df, i) ==
  LET combined_text == CombinedText(df[i])
      row_tokens    == clean_and_tokenize(combined_text)
      tok_count     == Cardinality(user_tokens \cap row_tokens)
      score         == fuzzy_ratio(user_input, combined_text)
  IN  IF Len(combined_text) = 0 THEN <<>>
      ELSE << [priority  |-> Priority(score, tok_count),
               score     |-> score,
               tok_count |-> tok_count,
               row       |-> i] >>

RECURSIVE ScanRows(_, _, _, _)
(* the candidates of rows 1..n, in catalog order *)
ScanRows(user_input, user_tokens, df, n) ==
  IF n = 0 THEN <<>>
  ELSE ScanRows(user_input, user_tokens, df, n - 1)
         \o Candidate(user_input, user_tokens, df, n)

(* Mutant: an equal priority goes in front of the ones already placed. *)
InsertDesc_unstable(sorted, x) ==
  LET k == Cardinality({j \in 1..Len(sorted) :
                          Less(x.priority, sorted[j].priority)})
  IN  SubSeq(sorted, 1, k) \o <<x>> \o SubSeq(sorted, k + 1, Len(sorted))

(* x goes behind every element whose priority is not less than its own *)
InsertDesc(sorted, x) ==
  LET k == Cardinality({j \in 1..Len(sorted) :
                          ~Less(sorted[j].priority, x.priority)})
  IN  SubSeq(sorted, 1, k) \o <<x>> \o SubSeq(sorted, k + 1, Len(sorted))

RECURSIVE SortByPriority(_)
(* candidates.sort(key=lambda x: x[0], reverse=True): stable, descending *)
SortByPriority(cands) ==
  IF cands = <<>> THEN <<>>
  ELSE InsertDesc(SortByPriority(SubSeq(cands, 1, Len(cands) - 1)),
                  cands[Len(cands)])

(* candidates[:top_n] *)
TopCandidates(cands, n) == SubSeq(cands, 1, MinInt(n, Len(cands)))

None == [none |-> TRUE, rows |-> <<>>]
Rows(rs) == [none |-> FALSE, rows |-> rs]

(* Mutant: the fuzzy threshold alone decides. *)
StrongMatch_fuzzyonly(best, threshold) ==
  Leq(Hundredths(threshold), best.score)

(* best_tok_hits > 0 or best_fuzzy >= fuzzy_threshold *)
StrongMatch(best, threshold) ==
  best.tok_count > 0 \/ Leq(Hundredths(threshold), best.score)

(* Mutant: the blank check is made before the strip. *)
search_faq_nostrip(input, df, n, threshold) ==
  LET user_input  == Strip(input)
      user_tokens == clean_and_tokenize(user_input)
      sorted      == SortByPriority(ScanRows(user_input, user_tokens, df, Len(df)))
      top         == TopCandidates(sorted, n)
  IN  IF Len(input) = 0
      THEN [matches |-> None, candidates |-> <<>>, scanned |-> 0]
      ELSE IF sorted = <<>>
      THEN [matches |-> None, candidates |-> <<>>, scanned |-> Len(df)]
      ELSE [matches    |-> IF StrongMatch(top[1], threshold)
                           THEN Rows([j \in 1..Len(top) |-> top[j].row])
                           ELSE None,
            candidates |-> sorted,
            scanned    |-> Len(df)]

(* Mutant: every sorted candidate is returned, not the first top_n. *)
search_faq_nocut(input, df, n, threshold) ==
  LET user_input  == Strip(input)
      user_tokens == clean_and_tokenize(user_input)
      sorted      == SortByPriority(ScanRows(user_input, user_tokens, df, Len(df)))
  IN  IF Len(user_input) = 0
      THEN [matches |-> None, candidates |-> <<>>, scanned |-> 0]
      ELSE IF sorted = <<>>
      THEN [matches |-> None, candidates |-> <<>>, scanned |-> Len(df)]
      ELSE [matches    |-> IF StrongMatch(sorted[1], threshold)
                           THEN Rows([j \in 1..Len(sorted) |-> sorted[j].row])
                           ELSE None,
            candidates |-> sorted,
            scanned    |-> Len(df)]

(* the result, the sorted candidate list and the number of rows iterated *)
search_faq(input, df, n, threshold) ==
  LET user_input  == Strip(input)
      user_tokens == clean_and_tokenize(user_input)
      sorted      == SortByPriority(ScanRows(user_input, user_tokens, df, Len(df)))
      top         == TopCandidates(sorted, n)
  IN  IF Len(user_input) = 0
      THEN [matches |-> None, candidates |-> <<>>, scanned |-> 0]
      ELSE IF sorted = <<>>
      THEN [matches |-> None, candidates |-> <<>>, scanned |-> Len(df)]
      ELSE [matches    |-> IF StrongMatch(top[1], threshold)
                           THEN Rows([j \in 1..Len(top) |-> top[j].row])
                           ELSE None,
            candidates |-> sorted,
            scanned    |-> Len(df)]

----------------------------------------------------------------------------
(* Inputs *)

MaxRows == 2
MaxTopN == 2

AllColumns == {"Disease", "Common Symptoms", "Notes"}
ColumnSets == {AllColumns, {"Disease"}, {}}

Blank == Str(<<" ">>)
Flu   == <<"f","l","u">>
Flus  == <<"f","l","u","s">>
Cold  == <<"c","o","l","d">>
The   == <<"t","h","e">>

MkRow(d, s, n) == [c \in AllColumns |->
                     IF c = "Disease" THEN d
                     ELSE IF c = "Common Symptoms" THEN s ELSE n]

RowSet ==
  { MkRow(Str(Flu),  Str(Cold), Blank),
    MkRow(Str(Cold), Str(Flu),  Blank),
    MkRow(Str(Flus), Blank,     Blank),
    MkRow(Str(The),  Blank,     Blank),
    MkRow(Blank,     Blank,     Blank),
    MkRow(NaN,       NaN,       NaN) }

(* the rows of a file that has only the columns cols *)
Restrict(row, cols) == [c \in cols |-> row[c]]

Catalogs(cols) ==
  UNION { [1..n -> {Restrict(r, cols) : r \in RowSet}] : n \in 0..MaxRows }

Queries ==
  { <<>>, <<" ">>, <<" ","\t">>,
    Flu, <<" ">> \o Flu \o <<" ">>, <<"F","l","u">>, <<"F","L","U","?">>,
    Flus, Cold, <<"c","o","l">>, <<"l","u","s">>,
    The, <<"i","t">>, The \o <<" ">> \o Flu, <<"i","s"," ">> \o The,
    Flu \o <<" ">> \o Cold, Flu \o <<",">> \o Cold,
    <<"n","a","n">>, <<"x","y","z">> }

TopNs == 1..MaxTopN

(* hundredths: the slider's values 0.30, 0.35 .. 0.90 *)
SliderThresholds == {30 + 5 * k : k \in 0..12}

(* the ends of [0, 1], the ends and the default of the slider, and the
   values around the lowest token floor 0.80 *)
Thresholds == {0, 30, 60, 80, 85, 90, 100}

(* the "top n" slider *)
SliderTopNs == 1..5

----------------------------------------------------------------------------
(* One call of search_faq on arbitrary arguments *)

Idle == [matches |-> None, candidates |-> <<>>, scanned |-> 0]

InitSearch ==
  /\ faq_columns \in ColumnSets
  /\ faq_df \in Catalogs(faq_columns)
  /\ user_question \in Queries
  /\ top_n \in TopNs
  /\ fuzzy_threshold \in Thresholds
  /\ gemini_ready = FALSE
  /\ force_ai = FALSE
  /\ query_in_english = <<>>
  /\ matches = None
  /\ candidates = <<>>
  /\ scanned = 0
  /\ trace = <<>>
  /\ score_in = Hundredths(0)
  /\ tok_in = 0
  /\ priority_out = Hundredths(0)

CallSearchFaq ==
  /\ trace = <<>>
  /\ LET r == search_faq(user_question, faq_df, top_n, fuzzy_threshold)
     IN  /\ matches' = r.matches
         /\ candidates' = r.candidates
         /\ scanned' = r.scanned
  /\ trace' = <<"search_faq">>
  /\ UNCHANGED <<faq_columns, faq_df, gemini_ready, user_question, force_ai,
                 top_n, fuzzy_threshold, query_in_english,
                 score_in, tok_in, priority_out>>

NextSearch == CallSearchFaq

SpecSearch == InitSearch /\ [][NextSearch]_vars

----------------------------------------------------------------------------
(* Priority on arbitrary scores and token counts *)

MaxTotal == 8
MaxTok == 6

(* the ratios 2M/T of two texts of T characters in all, M of them matched *)
Scores == {[num |-> 2 * m, den |-> t] : <<m, t>> \in
             {p \in (0..MaxTotal) \X (1..MaxTotal) : 2 * p[1] <= p[2]}}

InitPriority ==
  /\ score_in \in Scores
  /\ tok_in \in 0..MaxTok
  /\ priority_out = Hundredths(0)
  /\ faq_columns = AllColumns
  /\ faq_df = <<>>
  /\ user_question = <<>>
  /\ top_n = 3
  /\ fuzzy_threshold = 60
  /\ gemini_ready = FALSE
  /\ force_ai = FALSE
  /\ query_in_english = <<>>
  /\ matches = None
  /\ candidates = <<>>
  /\ scanned = 0
  /\ trace = <<>>

ComputePriority ==
  /\ trace = <<>>
  /\ priority_out' = Priority(score_in, tok_in)
  /\ trace' = <<"priority">>
  /\ UNCHANGED <<faq_columns, faq_df, gemini_ready, user_question, force_ai,
                 top_n, fuzzy_threshold, query_in_english, matches,
                 candidates, scanned, score_in, tok_in>>

NextPriority == ComputePriority

SpecPriority == InitPriority /\ [][NextPriority]_vars

----------------------------------------------------------------------------
(* The page: the widgets and the submit logic.  Every interaction reruns   *)
(* the script; only a press of Search enters the submit branch, so any     *)
(* other rerun leaves nothing of the previous answer on the page.          *)

AppCatalogs == {df \in Catalogs(AllColumns) : Len(df) <= 1}

Questions ==
  { <<>>, <<" ">>, Flu, Flus, The, <<"x","y","z">> }

(* what the translation model may answer *)
Translations == { Flu, <<" ">> }

(* to_english: the text itself without Gemini, for an empty text, on an    *)
(* error or an empty answer; otherwise whatever the model answers          *)
to_english(text) ==
  IF ~gemini_ready \/ Len(text) = 0 THEN {text}
  ELSE {text} \cup Translations

(* if matches: *)
Truthy(m) == ~m.none /\ Len(m.rows) > 0

(* Mutant: the fallback is not in an else branch. *)
SubmitCalls_noelse(force, m) ==
  IF force THEN <<"ask_gemini", "translate_via_gemini">>
  ELSE IF Truthy(m) THEN <<"search_faq", "show_matches",
                           "ask_gemini", "translate_via_gemini">>
  ELSE <<"search_faq", "ask_gemini", "translate_via_gemini">>

(* the calls of one submission, in order; m is what search_faq returned *)
SubmitCalls(force, m) ==
  IF force THEN <<"ask_gemini", "translate_via_gemini">>
  ELSE IF Truthy(m) THEN <<"search_faq", "show_matches">>
  ELSE <<"search_faq", "ask_gemini", "translate_via_gemini">>

Init ==
  /\ faq_columns = AllColumns
  /\ faq_df \in AppCatalogs
  /\ gemini_ready \in BOOLEAN
  /\ user_question = <<>>
  /\ force_ai = FALSE
  /\ top_n = 3
  /\ fuzzy_threshold = 60
  /\ query_in_english = <<>>
  /\ matches = None
  /\ candidates = <<>>
  /\ scanned = 0
  /\ trace = <<>>
  /\ score_in = Hundredths(0)
  /\ tok_in = 0
  /\ priority_out = Hundredths(0)

(* a rerun that does not enter the submit branch *)
Cleared ==
  /\ query_in_english' = <<>>
  /\ matches' = None
  /\ candidates' = <<>>
  /\ scanned' = 0
  /\ trace' = <<>>
  /\ UNCHANGED <<faq_columns, faq_df, gemini_ready,
                 score_in, tok_in, priority_out>>

TypeQuestion ==
  /\ \E q \in Questions : q # user_question /\ user_question' = q
  /\ Cleared
  /\ UNCHANGED <<force_ai, top_n, fuzzy_threshold>>

ToggleForceAi ==
  /\ force_ai' = ~force_ai
  /\ Cleared
  /\ UNCHANGED <<user_question, top_n, fuzzy_threshold>>

SlideTopN ==
  /\ \E n \in SliderTopNs : n # top_n /\ top_n' = n
  /\ Cleared
  /\ UNCHANGED <<user_question, force_ai, fuzzy_threshold>>

SlideThreshold ==
  /\ \E t \in SliderThresholds : t # fuzzy_threshold /\ fuzzy_threshold' = t
  /\ Cleared
  /\ UNCHANGED <<user_question, force_ai, top_n>>

(* if submit and user_question: ... *)
Submit ==
  /\ Len(user_question) > 0
  /\ \E q \in to_english(user_question) :
       LET r == IF force_ai THEN Idle
                ELSE search_faq(q, faq_df, top_n, fuzzy_threshold)
       IN  /\ query_in_english' = q
           /\ matches' = r.matches
           /\ candidates' = r.candidates
           /\ scanned' = r.scanned
           /\ trace' = SubmitCalls(force_ai, r.matches)
  /\ UNCHANGED <<faq_columns, faq_df, gemini_ready, user_question, force_ai,
                 top_n, fuzzy_threshold, score_in, tok_in, priority_out>>

Next ==
  \/ TypeQuestion
  \/ ToggleForceAi
  \/ SlideTopN
  \/ SlideThreshold
  \/ Submit

Spec == Init /\ [][Next]_vars

----------------------------------------------------------------------------
(* Properties of search_faq, stated on the state after the call *)

Called == trace = <<"search_faq">>

Range(f) == {f[j] : j \in DOMAIN f}

(* the candidate computed for catalog row i, if any *)
HasCandidate(i) == \E c \in Range(candidates) : c.row = i
CandidateOf(i) == CHOOSE c \in Range(candidates) : c.row = i

Returned == IF matches.none THEN {} ELSE Range(matches.rows)

(* the words of a text: lowercased, cut at whitespace and punctuation *)
Words(text) == Split(ReplacePunctuation(Lower(text)))

(* C1: the result of search_faq is NO_MATCH or a non-empty sequence of at
   most top_n distinct rows of the catalog. *)
C1_ResultShape ==
  Called =>
    \/ matches = None
    \/ /\ ~matches.none
       /\ Len(matches.rows) >= 1
       /\ Len(matches.rows) <= top_n
       /\ \A j \in DOMAIN matches.rows : matches.rows[j] \in DOMAIN faq_df
       /\ \A j, k \in DOMAIN matches.rows :
             matches.rows[j] = matches.rows[k] => j = k

C1_Witness ==
  /\ Called
  /\ ~matches.none
  /\ Len(candidates) > top_n
  /\ Len(matches.rows) = top_n

AllStopword(q) == \A t \in Words(q) : Len(t) < MinTokenLen \/ t \in STOPWORDS

(* C2, as claimed: a query whose every token is a stopword or shorter than
   three characters resolves to NO_MATCH. *)
C2_AllStopwordNoMatch ==
  (Called /\ AllStopword(user_question)) => matches = None

(* C2, amended: a query whose every token is a stopword or shorter than
   three characters has no token hit on any record, and resolves to NO_MATCH
   exactly when no record's fuzzy score reaches the threshold. *)
C2_AllStopwordFuzzyOnly ==
  (Called /\ AllStopword(user_question)) =>
    /\ \A c \in Range(candidates) : c.tok_count = 0
    /\ matches.none <=>
         \A c \in Range(candidates) : Less(c.score, Hundredths(fuzzy_threshold))

C2_Witness ==
  /\ Called
  /\ AllStopword(user_question)
  /\ Len(Strip(user_question)) >= MinTokenLen
  /\ fuzzy_threshold > 0
  /\ ~matches.none

IsSubstring(x, y) ==
  \E i \in 1..(Len(y) - Len(x) + 1) : SubSeq(y, i, i + Len(x) - 1) = x

(* the query is a case-insensitive substring of the text of row i *)
SubstringOfRow(i) ==
  /\ Len(user_question) >= MinTokenLen
  /\ Lower(user_question) \notin STOPWORDS
  /\ IsSubstring(Lower(user_question), Lower(CombinedText(faq_df[i])))

(* C3, as claimed: a record of whose text the query is a substring has a
   token hit and is in the result. *)
C3_SubstringReturned ==
  Called =>
    \A i \in DOMAIN faq_df :
      SubstringOfRow(i) =>
        /\ HasCandidate(i)
        /\ CandidateOf(i).tok_count > 0
        /\ i \in Returned

(* the trimmed query is one whole word of the text of row i *)
WholeWordOfRow(i) ==
  LET w == Lower(Strip(user_question))
  IN  /\ Len(w) >= MinTokenLen
      /\ w \notin STOPWORDS
      /\ Words(w) = {w}
      /\ w \in Words(CombinedText(faq_df[i]))

(* the candidates sorted in front of row i *)
RankedBefore(i) ==
  {c \in Range(candidates) :
     /\ c.row # i
     /\ \/ Less(CandidateOf(i).priority, c.priority)
        \/ Same(CandidateOf(i).priority, c.priority) /\ c.row < i}

(* C3, amended: a record of whose text the trimmed query is a whole word
   (three or more characters, not a stopword) has a token hit; the result
   is a sequence whenever the threshold is at most 0.80, and the record is
   in it whenever the result is a sequence and fewer than top_n candidates
   rank before the record. *)
C3_WholeWordReturned ==
  Called =>
    \A i \in DOMAIN faq_df :
      WholeWordOfRow(i) =>
        /\ HasCandidate(i)
        /\ CandidateOf(i).tok_count > 0
        /\ fuzzy_threshold <= 80 => ~matches.none
        /\ (~matches.none /\ Cardinality(RankedBefore(i)) < top_n)
             => i \in Returned

C3_Witness ==
  /\ Called
  /\ \E i \in DOMAIN faq_df :
       /\ WholeWordOfRow(i)
       /\ user_question # Lower(user_question)
       /\ Cardinality(RankedBefore(i)) = 1
       /\ i \in Returned

(* C5: when there are candidates, the result is the rows of the first top_n
   sorted candidates if the first of them has a token hit or a fuzzy score
   of at least the threshold, and NO_MATCH otherwise. *)
C5_AcceptanceGate ==
  (Called /\ candidates # <<>>) =>
    LET top == SubSeq(candidates, 1,
                      IF top_n < Len(candidates) THEN top_n ELSE Len(candidates))
    IN  IF \/ top[1].tok_count > 0
           \/ top[1].score.num * 100 >= fuzzy_threshold * top[1].score.den
        THEN matches = Rows([j \in DOMAIN top |-> top[j].row])
        ELSE matches = None

(* the first candidate fails the gate although a later one would pass it *)
C5_Witness ==
  /\ Called
  /\ matches = None
  /\ \E j \in DOMAIN candidates : j > 1 /\ candidates[j].tok_count > 0

(* C6: the returned rows are in non-increasing priority, rows of equal
   priority in catalog order, and no candidate left out at the cut would
   sort in front of a returned one. *)
C6_StableOrder ==
  (Called /\ ~matches.none) =>
    /\ \A j, k \in DOMAIN matches.rows :
         j < k =>
           LET x == CandidateOf(matches.rows[j]).priority
               y == CandidateOf(matches.rows[k]).priority
           IN  /\ ~Less(x, y)
               /\ Same(x, y) => matches.rows[j] < matches.rows[k]
    /\ \A c \in Range(candidates) :
         c.row \notin Returned =>
           \A r \in Returned :
              \/ Less(c.priority, CandidateOf(r).priority)
              \/ Same(c.priority, CandidateOf(r).priority) /\ r < c.row

(* two rows of equal priority, the cut falling between them *)
C6_Witness ==
  /\ Called
  /\ ~matches.none
  /\ Len(matches.rows) = top_n
  /\ \E c \in Range(candidates) :
       /\ c.row \notin Returned
       /\ Same(c.priority, CandidateOf(matches.rows[top_n]).priority)

(* a field is empty or missing: no such column, an empty cell, or blanks *)
FieldEmpty(row, col) ==
  \/ col \notin DOMAIN row
  \/ row[col].nan
  \/ Strip(row[col].text) = <<>>

(* C7: when the catalog is empty, or every record's disease, symptoms and
   notes are each empty or missing, no candidate is produced and the result
   is NO_MATCH. *)
C7_EmptyTextNoMatch ==
  (Called /\ \A i \in DOMAIN faq_df : \A col \in AllColumns :
                                        FieldEmpty(faq_df[i], col)) =>
    candidates = <<>> /\ matches = None

(* C8: a query that is empty or only whitespace resolves to NO_MATCH with
   no row scanned and no candidate computed. *)
C8_BlankQueryShortCircuit ==
  (Called /\ \A j \in DOMAIN user_question : user_question[j] \in Whitespace) =>
    matches = None /\ scanned = 0 /\ candidates = <<>>

C8_Witness ==
  /\ Called
  /\ Len(user_question) > 0
  /\ \A j \in DOMAIN user_question : user_question[j] \in Whitespace
  /\ \E i \in DOMAIN faq_df : Len(CombinedText(faq_df[i])) > 0
  /\ fuzzy_threshold = 0

(* C9: for a query that is not blank, the result is a list exactly when
   some row has a token hit or the best fuzzy score over all rows is at
   least the threshold. *)
C9_DocstringRule ==
  (Called /\ Len(Strip(user_question)) > 0) =>
    (~matches.none <=>
       \/ \E c \in Range(candidates) : c.tok_count > 0
       \/ \E c \in Range(candidates) :
            Leq(Hundredths(fuzzy_threshold), c.score))

----------------------------------------------------------------------------
(* Properties of the priority *)

Computed == trace = <<"priority">>

(* the token floor of k shared tokens with the boost capped at cap, in
   hundredths *)
Floor(k, cap) == 75 + (IF 5 * k < cap THEN 5 * k ELSE cap)

PriorityIs(cap) ==
  IF tok_in > 0
  THEN IF score_in.num * 100 >= Floor(tok_in, cap) * score_in.den
       THEN priority_out = score_in
       ELSE priority_out = Hundredths(Floor(tok_in, cap))
  ELSE priority_out = score_in

(* C4, as claimed: priority = max(fuzzyScore, 0.75 + min(0.20, 0.05 k))
   for k > 0 token hits, a floor that never exceeds 0.95; the fuzzy score
   for k = 0. *)
C4_PriorityCap20 ==
  Computed =>
    /\ PriorityIs(20)
    /\ tok_in > 0 /\ Less(score_in, Hundredths(95))
         => Leq(priority_out, Hundredths(95))

(* C4, amended: priority = max(fuzzyScore, 0.75 + min(0.25, 0.05 k)) for
   k > 0 token hits, a floor that rises by 0.05 per shared token and never
   exceeds 1.00; the fuzzy score for k = 0. *)
C4_PriorityCap25 ==
  Computed =>
    /\ PriorityIs(25)
    /\ tok_in > 0 =>
         /\ Leq(Hundredths(75 + 5), priority_out)
         /\ Leq(priority_out, Hundredths(100))
         /\ tok_in <= 5 => Leq(Hundredths(75 + 5 * tok_in), priority_out)

C4_Witness ==
  /\ Computed
  /\ tok_in = 5
  /\ Less(score_in, Hundredths(95))
  /\ priority_out = Hundredths(100)

----------------------------------------------------------------------------
(* Properties of the submit flow *)

(* search_faq was called before position i of the trace and returned None *)
NoMatchBefore(i) ==
  /\ \E j \in 1..(i - 1) : trace[j] = "search_faq"
  /\ matches = None

(* C10, as claimed: ask_gemini is only ever called after search_faq was
   called for the submission and returned NO_MATCH. *)
C10_FallbackOnlyAfterNoMatch ==
  \A i \in DOMAIN trace : trace[i] = "ask_gemini" => NoMatchBefore(i)

(* C10, amended: ask_gemini is called either directly, when "Ask AI
   Directly" is ticked and the matcher is skipped, or after search_faq was
   called for the submission and returned NO_MATCH. *)
C10_FallbackDirectOrAfterNoMatch ==
  \A i \in DOMAIN trace :
    trace[i] = "ask_gemini" =>
      IF force_ai
      THEN \A j \in DOMAIN trace : trace[j] # "search_faq"
      ELSE NoMatchBefore(i)

C10_Witness ==
  /\ ~force_ai
  /\ \E i \in DOMAIN trace : trace[i] = "ask_gemini" /\ NoMatchBefore(i)
  /\ faq_df # <<>>
  /\ scanned > 0

====
